---- MODULE Spec2Model ----
(***************************************************************************)
(* Model of app/main.py: the render pipeline (render concurrency gate,     *)
(* Playwright supervisor, frame renderer, /render.png endpoint) and the    *)
(* image resolver (to_data_uri).                                           *)
(*                                                                         *)
(* The program runs on one asyncio event loop: a coroutine runs without    *)
(* interruption until it reaches an await that suspends.  A task's pc      *)
(* names the await it is suspended on; one action completes that await     *)
(* (with an outcome drawn from what the awaited operation can do) and      *)
(* runs the code that follows it up to the next suspending await.          *)
(***************************************************************************)
EXTENDS Naturals, FiniteSets, Sequences, TLC

\* ------------------------------------------------------------- bounds
MaxRequests == 2
MaxCapacity == MaxRequests

\* Task 0 runs the application's startup and shutdown handlers;
\* tasks 1..MaxRequests are /render.png requests.
Lifecycle == 0
Requests == 1..MaxRequests
Tasks == 0..MaxRequests
NoTask == MaxRequests + 1

\* The host runs at most this many driver and browser processes at a
\* time: a start or a launch beyond it fails.  An identifier is free again
\* once its process has ended and nothing refers to it.
MaxBrowsers == 2
MaxDrivers == MaxBrowsers

\* At most this many spontaneous failures happen in a run: a process that
\* dies, or a call that raises although what it addresses is healthy.  A
\* call on a dead browser or a broken driver always raises.
MaxFaults == 2
Drivers == 1..MaxDrivers
Browsers == 1..MaxBrowsers
None == 0

VARIABLES
    capacity,    \* RENDER_CONCURRENCY
    render_sem,  \* free units of _render_sem
    pw_lock,     \* holder of _pw_lock, NoTask when free
    pw,          \* _pw: None or the driver the handle refers to
    browser,     \* _browser: None or the browser the handle refers to
    dstate,      \* each Playwright driver: unborn, ok, broken, stopped
    bstate,      \* each browser process: unborn, live, dead, closed
    bdrv,        \* the driver that launched each browser
    phase,       \* application lifecycle
    pc,          \* per task: the await it is suspended on
    page,        \* per task: browser holding its open page, None if none
    opb,         \* per task: browser its pending close/new_page addresses
    opd,         \* per task: driver its pending launch/stop addresses
    exc,         \* per task: exception pending while the finally runs
    via,         \* per task: who called _restart_playwright
    attempt,     \* per task: which _do() call is running (1, 2)
    result,      \* per request: body of the HTTP response
    status,      \* per request: HTTP status of the response
    hist,        \* per task: what the call did so far (observation only)
    faults       \* spontaneous failures so far

\* The image resolutions of one /render.png request (468-474).
VARIABLES
    url,         \* per image: the URL handed to to_data_uri
    rpc,         \* per image: waiting, fetching (client.get pending), done
    fetches,     \* per image: client.get calls issued
    outcome,     \* per image: how the last client.get ended
    resolved,    \* per image: what to_data_uri returned
    joined       \* asyncio.gather has returned

ivars == <<url, rpc, fetches, outcome, resolved, joined>>

\* One application of a helper function or one /feed.xml request.
VARIABLES
    call         \* the function applied, its argument and what it returned

hvars == <<call>>

rvars == <<capacity, render_sem, pw_lock, pw, browser, dstate, bstate, bdrv,
           phase, pc, page, opb, opd, exc, via, attempt, result, status, hist,
           faults>>

\* ------------------------------------------------- exceptions (292-304)
\* An exception is modelled by the kind of its message.
Errors == {"target_closed", "handler_closed", "timeout", "attr_none"}
FatalErrors == {"target_closed", "handler_closed"}

\* _is_fatal_playwright_error: the message holds one of the fatal patterns.
IsFatal(e) == e \in FatalErrors

\* What an awaited Playwright operation can raise: one ordinary and one
\* fatal-class message.
Raised == {"timeout", "target_closed"}

\* The outcomes of an awaited call, each with the spontaneous failures it
\* costs: "ok" needs a healthy target.
Fates(s, healthy) ==
    IF healthy
    THEN {<<"ok", 0>>} \cup
         (IF s.faults < MaxFaults THEN {<<e, 1>> : e \in Raised} ELSE {})
    ELSE {<<e, 0>> : e \in Raised}

\* ------------------------------------------------------- state record
Cur ==
    [capacity |-> capacity, render_sem |-> render_sem, pw_lock |-> pw_lock,
     pw |-> pw, browser |-> browser, dstate |-> dstate, bstate |-> bstate,
     bdrv |-> bdrv, phase |-> phase, pc |-> pc, page |-> page, opb |-> opb,
     opd |-> opd, exc |-> exc, via |-> via, attempt |-> attempt,
     result |-> result, status |-> status, hist |-> hist, faults |-> faults]

\* Process identifiers are names of the model only: the ones whose process
\* has ended and which no handle, page or pending call refers to are freed.
Collect(s) ==
    LET refB == {s.browser} \cup {s.opb[t] : t \in Tasks} \cup {s.page[t] : t \in Tasks}
        goneB == {b \in Browsers : s.bstate[b] \in {"dead", "closed"} /\ b \notin refB}
        bs == [b \in Browsers |-> IF b \in goneB THEN "unborn" ELSE s.bstate[b]]
        bd == [b \in Browsers |-> IF b \in goneB THEN None ELSE s.bdrv[b]]
        refD == {s.pw} \cup {s.opd[t] : t \in Tasks} \cup {bd[b] : b \in Browsers}
        ds == [d \in Drivers |->
                 IF s.dstate[d] \in {"broken", "stopped"} /\ d \notin refD
                 THEN "unborn" ELSE s.dstate[d]]
    IN [s EXCEPT !.bstate = bs, !.bdrv = bd, !.dstate = ds]

Commit(s0) ==
    \E s \in {Collect(s0)} :
    /\ capacity' = s.capacity
    /\ render_sem' = s.render_sem
    /\ pw_lock' = s.pw_lock
    /\ pw' = s.pw
    /\ browser' = s.browser
    /\ dstate' = s.dstate
    /\ bstate' = s.bstate
    /\ bdrv' = s.bdrv
    /\ phase' = s.phase
    /\ pc' = s.pc
    /\ page' = s.page
    /\ opb' = s.opb
    /\ opd' = s.opd
    /\ exc' = s.exc
    /\ via' = s.via
    /\ attempt' = s.attempt
    /\ result' = s.result
    /\ status' = s.status
    /\ hist' = s.hist
    /\ faults' = s.faults
    /\ UNCHANGED <<ivars, hvars>>

\* hist: the exceptions of the first and second _do(); what
\* _ensure_browser found and how often it restarted, launched and closed;
\* the pages closed; how render_png ended; whether the call had to wait
\* for a gate unit; whether _ensure_browser raised with _pw still
\* referring to a broken driver.
NoHist == [fail1 |-> "none", fail2 |-> "none", saw |-> "none",
           erestarts |-> 0, elaunches |-> 0, ecloses |-> 0,
           pcloses |-> 0, ended |-> "none", waited |-> FALSE,
           stuck |-> FALSE]

At(s, t, p) == [s EXCEPT !.pc[t] = p]
Note(s, t, f, v) == [s EXCEPT !.hist[t][f] = v]
Count(s, t, f) == [s EXCEPT !.hist[t][f] = @ + 1]

FreeDrivers(s) == {d \in Drivers : s.dstate[d] = "unborn"}
FreeBrowsers(s) == {b \in Browsers : s.bstate[b] = "unborn"}
NewDriver(s) == CHOOSE d \in FreeDrivers(s) : \A e \in FreeDrivers(s) : d <= e
NewBrowser(s) == CHOOSE b \in FreeBrowsers(s) : \A c \in FreeBrowsers(s) : b <= c

\* The pending call of task t has completed with fate f.
Completed(s, t) == [s EXCEPT !.opb[t] = None, !.opd[t] = None]
After(s, t, f) == [Completed(s, t) EXCEPT !.faults = @ + f[2]]

\* A browser process is a child of its driver: it exits with it.
KillBrowsersOf(s, d) ==
    [s EXCEPT !.bstate = [b \in Browsers |->
        IF s.bstate[b] = "live" /\ s.bdrv[b] = d THEN "dead" ELSE s.bstate[b]]]

\* browser.close(): ends a live process; raises on a dead one (callers
\* ignore the exception).
CloseBrowser(s, b) ==
    IF s.bstate[b] = "live" THEN [s EXCEPT !.bstate[b] = "closed"] ELSE s

\* pw.stop(): ends a running driver and its browsers; raises on a broken
\* one (callers ignore the exception).
StopDriver(s, d) ==
    IF s.dstate[d] = "ok"
    THEN KillBrowsersOf([s EXCEPT !.dstate[d] = "stopped"], d)
    ELSE s

\* -------------------------------------------- /render.png (492-499)
FallbackPng == "transparent_png"
RenderedPng == "rendered_png"

EndpointBodyPropagates(raised) == IF raised THEN "error" ELSE RenderedPng
\* try: png = await render_png(...) except Exception: png = _TRANSPARENT_PNG
EndpointBody(raised) == IF raised THEN FallbackPng ELSE RenderedPng

EndpointStatus(raised) == 200

\* ------------------------------------------ _render_sem (20-21, 395)
SemAvailableAlways(s) == TRUE
\* Semaphore.acquire succeeds at once iff a unit is free.
SemAvailable(s) == s.render_sem > 0

ExitGateLeakOnError(s, raised) ==
    IF raised THEN s ELSE [s EXCEPT !.render_sem = @ + 1]
\* The exit of `async with _render_sem`: the unit goes back on return and
\* on exception alike.
ExitGate(s, raised) == [s EXCEPT !.render_sem = @ + 1]

\* render_png ends (returning or raising) and render_endpoint answers.
EndCall(s, t, raised) ==
    LET s1 == ExitGate(s, raised) IN
    [s1 EXCEPT !.pc[t] = "done",
               !.hist[t].ended = IF raised THEN "raised" ELSE "returned",
               !.result[t] = EndpointBody(raised),
               !.status[t] = EndpointStatus(raised)]

\* ------------------------------------------------ _pw_lock (289, 340)
LockFreeAlways(s) == TRUE
LockFree(s) == s.pw_lock = NoTask

ExitLockKeepsIt(s) == s
\* The exit of `async with _pw_lock`: the lock is released on return and
\* on exception alike.
ExitLock(s) == [s EXCEPT !.pw_lock = NoTask]

\* ------------------------------------- _restart_playwright (307-334)
RestartRaise(s, t) ==
    \* the exception leaves _restart_playwright
    IF s.via[t] = "ensure"
    THEN \* ... and _ensure_browser's except block and its `async with`
         LET s1 == ExitLock(s) IN
         IF t = Lifecycle
         THEN [s1 EXCEPT !.pc[t] = "done", !.phase = "failed"]
         ELSE EndCall(s1, t, TRUE)
    ELSE EndCall(s, t, TRUE)

\* 322, 324: _pw = None; _pw = await async_playwright().start()
RestartAfterStop(s, t) == At([s EXCEPT !.pw = None], t, "r_start")

\* 315, 317-319: _browser = None; if _pw: await _pw.stop()
RestartAfterClose(s, t) ==
    LET s1 == [s EXCEPT !.browser = None] IN
    IF s1.pw # None
    THEN At([s1 EXCEPT !.opd[t] = s1.pw], t, "r_stop")
    ELSE RestartAfterStop(s1, t)

\* 310-312: if _browser: await _browser.close()
RestartEntry(s, t) ==
    IF s.browser # None
    THEN At([s EXCEPT !.opb[t] = s.browser], t, "r_close")
    ELSE RestartAfterClose(s, t)

\* ---------------------------------------------- render_png (392-422)
ShouldRetryAnyError(s, t, e) == s.attempt[t] = 1
\* 415-422: only the first _do() runs inside the try; the restart and the
\* second _do() run inside its except block.
ShouldRetry(s, t, e) == s.attempt[t] = 1 /\ IsFatal(e)

\* _do() raised e.
DoRaise(s, t, e) ==
    LET s1 == IF s.attempt[t] = 1 THEN Note(s, t, "fail1", e)
              ELSE Note(s, t, "fail2", e) IN
    IF ShouldRetry(s1, t, e)
    THEN RestartEntry([s1 EXCEPT !.via[t] = "render"], t)
    ELSE EndCall(s1, t, TRUE)

\* 399: page = await _browser.new_page(...)
Do(s, t) ==
    IF s.browser = None
    THEN DoRaise(s, t, "attr_none")
    ELSE At([s EXCEPT !.opb[t] = s.browser], t, "new_page")

CleanupOnSuccessOnly(e) == e = "none"
\* 409-413: the finally block runs on return and on exception alike.
Cleanup(e) == TRUE

\* Leaving the try of _do() with the pending exception e ("none": the
\* screenshot is being returned).
Leave(s, t, e) ==
    IF Cleanup(e)
    THEN At([s EXCEPT !.exc[t] = e], t, "page_close")
    ELSE IF e = "none" THEN EndCall(s, t, FALSE) ELSE DoRaise(s, t, e)

\* ------------------------------------------ _ensure_browser (337-367)
\* Leaving _ensure_browser normally: the lock is released and the caller
\* goes on (render_png calls _do(); startup is over).
EnsureReturn(s, t) ==
    LET s1 == [ExitLock(s) EXCEPT !.via[t] = "none"] IN
    IF t = Lifecycle
    THEN [s1 EXCEPT !.pc[t] = "done", !.phase = "serving", !.hist[t] = NoHist]
    ELSE Do(s1, t)

\* 362-367: the except block.
EnsureFail(s, t, e) ==
    IF IsFatal(e)
    THEN RestartEntry(Count([s EXCEPT !.via[t] = "ensure"], t, "erestarts"), t)
    ELSE LET s1 == Note(ExitLock(s), t, "stuck",
                        s.pw # None /\ s.dstate[s.pw] = "broken") IN
         IF t = Lifecycle
         THEN [s1 EXCEPT !.pc[t] = "done", !.phase = "failed"]
         ELSE EndCall(s1, t, TRUE)

\* 352: _browser = await _pw.chromium.launch(...)
EnsureLaunch(s, t) ==
    IF s.pw = None
    THEN EnsureFail(s, t, "attr_none")
    ELSE At(Count([s EXCEPT !.opd[t] = s.pw], t, "elaunches"), t, "e_launch")

NeedsLaunchIfAbsent(s) == s.browser = None
NeedsLaunchIfDisconnected(s) == s.browser # None /\ s.bstate[s.browser] # "live"
\* 345: _browser is None or not _browser.is_connected()
NeedsLaunch(s) == s.browser = None \/ s.bstate[s.browser] # "live"

\* 345-350
EnsureCheck(s, t) ==
    LET seen == IF s.browser = None THEN "absent"
                ELSE IF s.bstate[s.browser] = "live" THEN "live" ELSE "dead"
        s1 == Note(s, t, "saw", seen) IN
    IF NeedsLaunch(s1)
    THEN IF s1.browser # None
         THEN At(Count([s1 EXCEPT !.opb[t] = s1.browser], t, "ecloses"), t, "e_close")
         ELSE EnsureLaunch(s1, t)
    ELSE EnsureReturn(s1, t)

\* 340-343: the lock is held from here.
EnsureBody(s, t) ==
    LET s1 == [s EXCEPT !.pw_lock = t] IN
    IF s1.pw = None
    THEN At(s1, t, "e_start")
    ELSE EnsureCheck(s1, t)

\* 340: async with _pw_lock
EnsureEntry(s, t) ==
    IF LockFree(s) THEN EnsureBody(s, t) ELSE At(s, t, "lock_wait")

\* 395-396: async with _render_sem: await _ensure_browser()
EnterGate(s, t) ==
    EnsureEntry([s EXCEPT !.render_sem = @ - 1], t)

GateFullRejects(s, t) ==
    [s EXCEPT !.pc[t] = "done", !.hist[t].ended = "raised",
              !.result[t] = EndpointBody(TRUE),
              !.status[t] = EndpointStatus(TRUE)]
\* 395: Semaphore.acquire with no free unit suspends the caller until a
\* unit is released; it has no timeout and raises nothing.
GateFull(s, t) == Note(At(s, t, "sem_wait"), t, "waited", TRUE)

\* --------------------------------------------- to_data_uri (248-280)
Images == {"primary", "secondary_1", "secondary_2", "logo"}

\* No request is resolving images.
ResolverIdle ==
    /\ url = [i \in Images |-> "data"]
    /\ rpc = [i \in Images |-> "waiting"]
    /\ fetches = [i \in Images |-> 0]
    /\ outcome = [i \in Images |-> "none"]
    /\ resolved = [i \in Images |-> "none"]
    /\ joined = FALSE

\* ------------------------------------------------------------ actions

\* What _ensure_browser did is forgotten once the first page call is over.
ForgetEnsure(s, t) ==
    [s EXCEPT !.hist[t].saw = "none", !.hist[t].erestarts = 0,
              !.hist[t].elaunches = 0, !.hist[t].ecloses = 0,
              !.hist[t].waited = FALSE]

RenderInit(caps) ==
    /\ capacity \in caps
    /\ render_sem = capacity
    /\ pw_lock = NoTask
    /\ pw = None
    /\ browser = None
    /\ dstate = [d \in Drivers |-> "unborn"]
    /\ bstate = [b \in Browsers |-> "unborn"]
    /\ bdrv = [b \in Browsers |-> None]
    /\ phase = "created"
    /\ pc = [t \in Tasks |-> "idle"]
    /\ page = [t \in Tasks |-> None]
    /\ opb = [t \in Tasks |-> None]
    /\ opd = [t \in Tasks |-> None]
    /\ exc = [t \in Tasks |-> "none"]
    /\ via = [t \in Tasks |-> "none"]
    /\ attempt = [t \in Tasks |-> 1]
    /\ result = [t \in Tasks |-> "none"]
    /\ status = [t \in Tasks |-> 0]
    /\ hist = [t \in Tasks |-> NoHist]
    /\ faults = 0

\* The service with one gate unit once _startup has returned: the driver
\* is started, the browser launched, the lock free, no request in flight.
RenderServing ==
    /\ capacity = 1
    /\ render_sem = capacity
    /\ pw_lock = NoTask
    /\ pw = 1
    /\ browser = 1
    /\ dstate = [d \in Drivers |-> IF d = 1 THEN "ok" ELSE "unborn"]
    /\ bstate = [b \in Browsers |-> IF b = 1 THEN "live" ELSE "unborn"]
    /\ bdrv = [b \in Browsers |-> IF b = 1 THEN 1 ELSE None]
    /\ phase = "serving"
    /\ pc = [t \in Tasks |-> IF t = Lifecycle THEN "done" ELSE "idle"]
    /\ page = [t \in Tasks |-> None]
    /\ opb = [t \in Tasks |-> None]
    /\ opd = [t \in Tasks |-> None]
    /\ exc = [t \in Tasks |-> "none"]
    /\ via = [t \in Tasks |-> "none"]
    /\ attempt = [t \in Tasks |-> 1]
    /\ result = [t \in Tasks |-> "none"]
    /\ status = [t \in Tasks |-> 0]
    /\ hist = [t \in Tasks |-> NoHist]
    /\ faults = 0

\* 370-372: the startup handler calls _ensure_browser.
Startup ==
    /\ phase = "created"
    /\ Commit(EnsureEntry([Cur EXCEPT !.phase = "starting"], Lifecycle))

\* 492-493: a request reaches render_png and asks for a gate unit.
CallRender(t) ==
    /\ phase = "serving"
    /\ pc[t] = "idle"
    /\ Commit(IF SemAvailable(Cur) THEN EnterGate(Cur, t)
              ELSE GateFull(Cur, t))

\* A waiter of _render_sem gets a unit.
AcquireSem(t) ==
    /\ pc[t] = "sem_wait"
    /\ SemAvailable(Cur)
    /\ Commit(EnterGate(Cur, t))

\* A waiter of _pw_lock gets the lock.
AcquireLock(t) ==
    /\ pc[t] = "lock_wait"
    /\ LockFree(Cur)
    /\ Commit(EnsureBody(Cur, t))

\* 343 completes.
EnsureStarted(t) ==
    /\ pc[t] = "e_start"
    /\ \E f \in Fates(Cur, FreeDrivers(Cur) # {}) :
        LET s == After(Cur, t, f) IN
        Commit(IF f[1] = "ok"
               THEN LET d == NewDriver(s) IN
                    EnsureCheck([s EXCEPT !.dstate[d] = "ok", !.pw = d], t)
               ELSE EnsureFail(s, t, f[1]))

\* 348 completes (an exception is ignored).
EnsureClosed(t) ==
    /\ pc[t] = "e_close"
    /\ Commit(EnsureLaunch(Completed(CloseBrowser(Cur, opb[t]), t), t))

\* 352 completes.
EnsureLaunched(t) ==
    /\ pc[t] = "e_launch"
    /\ \E f \in Fates(Cur, dstate[opd[t]] = "ok" /\ FreeBrowsers(Cur) # {}) :
        LET s == After(Cur, t, f) IN
        Commit(IF f[1] = "ok"
               THEN LET b == NewBrowser(s) IN
                    EnsureReturn([s EXCEPT !.bstate[b] = "live",
                                           !.bdrv[b] = opd[t],
                                           !.browser = b], t)
               ELSE EnsureFail(s, t, f[1]))

\* 312 completes (an exception is ignored).
RestartClosed(t) ==
    /\ pc[t] = "r_close"
    /\ Commit(RestartAfterClose(Completed(CloseBrowser(Cur, opb[t]), t), t))

\* 319 completes (an exception is ignored).
RestartStopped(t) ==
    /\ pc[t] = "r_stop"
    /\ Commit(RestartAfterStop(Completed(StopDriver(Cur, opd[t]), t), t))

\* 324 completes; 325 begins.
RestartStarted(t) ==
    /\ pc[t] = "r_start"
    /\ \E f \in Fates(Cur, FreeDrivers(Cur) # {}) :
        LET s == After(Cur, t, f) IN
        Commit(IF f[1] = "ok"
               THEN LET d == NewDriver(s) IN
                    At([s EXCEPT !.dstate[d] = "ok", !.pw = d, !.opd[t] = d],
                       t, "r_launch")
               ELSE RestartRaise(s, t))

\* 325 completes.
RestartLaunched(t) ==
    /\ pc[t] = "r_launch"
    /\ \E f \in Fates(Cur, dstate[opd[t]] = "ok" /\ FreeBrowsers(Cur) # {}) :
        LET s == After(Cur, t, f) IN
        Commit(IF f[1] = "ok"
               THEN LET b == NewBrowser(s)
                        s1 == [s EXCEPT !.bstate[b] = "live",
                                        !.bdrv[b] = opd[t],
                                        !.browser = b] IN
                    IF via[t] = "ensure"
                    THEN EnsureReturn(s1, t)
                    ELSE Do([s1 EXCEPT !.attempt[t] = 2], t)
               ELSE RestartRaise(s, t))

\* 399 completes.
PageOpened(t) ==
    /\ pc[t] = "new_page"
    /\ \E f \in Fates(Cur, bstate[opb[t]] = "live") :
        LET s == ForgetEnsure(After(Cur, t, f), t) IN
        Commit(IF f[1] = "ok"
               THEN At([s EXCEPT !.page[t] = opb[t]], t, "set_content")
               ELSE DoRaise(s, t, f[1]))

\* 401, 403, 406 complete: the next await of the try begins.
PageStep(t, from, to) ==
    /\ pc[t] = from
    /\ \E f \in Fates(Cur, bstate[page[t]] = "live") :
        LET s == After(Cur, t, f) IN
        Commit(IF f[1] = "ok" THEN At(s, t, to) ELSE Leave(s, t, f[1]))

ContentSet(t) == PageStep(t, "set_content", "settle")
Settled(t) == PageStep(t, "settle", "frame_wait")
FrameVisible(t) == PageStep(t, "frame_wait", "screenshot")

\* 408 completes.
Screenshot(t) ==
    /\ pc[t] = "screenshot"
    /\ \E f \in Fates(Cur, bstate[page[t]] = "live") :
        Commit(Leave(After(Cur, t, f), t, IF f[1] = "ok" THEN "none" ELSE f[1]))

\* 411 completes (an exception is ignored): _do() returns or re-raises.
PageClosed(t) ==
    /\ pc[t] = "page_close"
    /\ LET s1 == Count([Cur EXCEPT !.page[t] = None, !.exc[t] = "none"],
                       t, "pcloses") IN
       Commit(IF exc[t] = "none" THEN EndCall(s1, t, FALSE)
              ELSE DoRaise(s1, t, exc[t]))

\* 499: the response is sent; the task is free for the next request.
Respond(t) ==
    /\ pc[t] = "done"
    /\ Commit([Cur EXCEPT !.pc[t] = "idle", !.result[t] = "none",
                          !.status[t] = 0, !.hist[t] = NoHist,
                          !.via[t] = "none", !.attempt[t] = 1])

\* 375-389: the shutdown handler, once no request is being served.
Shutdown ==
    /\ phase = "serving"
    /\ \A t \in Requests : pc[t] = "idle"
    /\ LET s1 == [Cur EXCEPT !.phase = "stopping"] IN
       Commit(IF browser # None
              THEN At([s1 EXCEPT !.opb[Lifecycle] = browser], Lifecycle, "s_close")
              ELSE IF pw # None
              THEN At([s1 EXCEPT !.opd[Lifecycle] = pw], Lifecycle, "s_stop")
              ELSE At([s1 EXCEPT !.pw = None, !.phase = "stopped"],
                      Lifecycle, "done"))

\* 380 completes: 383-386.
ShutdownClosed ==
    /\ pc[Lifecycle] = "s_close"
    /\ LET s1 == [Completed(CloseBrowser(Cur, opb[Lifecycle]), Lifecycle)
                  EXCEPT !.browser = None] IN
       Commit(IF s1.pw # None
              THEN At([s1 EXCEPT !.opd[Lifecycle] = s1.pw], Lifecycle, "s_stop")
              ELSE At([s1 EXCEPT !.phase = "stopped"], Lifecycle, "done"))

\* 386 completes: 389.
ShutdownStopped ==
    /\ pc[Lifecycle] = "s_stop"
    /\ Commit(At([Completed(StopDriver(Cur, opd[Lifecycle]), Lifecycle) EXCEPT
                    !.pw = None, !.phase = "stopped"], Lifecycle, "done"))

\* The environment: a browser process dies, a driver's connection breaks.
BrowserCrash(b) ==
    /\ phase \in {"starting", "serving"}
    /\ faults < MaxFaults
    /\ bstate[b] = "live"
    /\ Commit([Cur EXCEPT !.bstate[b] = "dead", !.faults = @ + 1])

DriverBreak(d) ==
    /\ phase \in {"starting", "serving"}
    /\ faults < MaxFaults
    /\ dstate[d] = "ok"
    /\ Commit(KillBrowsersOf([Cur EXCEPT !.dstate[d] = "broken",
                                         !.faults = @ + 1], d))

Next ==
    \/ Startup
    \/ Shutdown
    \/ ShutdownClosed
    \/ ShutdownStopped
    \/ \E t \in Requests : CallRender(t)
    \/ \E t \in Requests : AcquireSem(t)
    \/ \E t \in Requests : AcquireLock(t)
    \/ \E t \in Tasks : EnsureStarted(t)
    \/ \E t \in Tasks : EnsureClosed(t)
    \/ \E t \in Tasks : EnsureLaunched(t)
    \/ \E t \in Tasks : RestartClosed(t)
    \/ \E t \in Tasks : RestartStopped(t)
    \/ \E t \in Tasks : RestartStarted(t)
    \/ \E t \in Tasks : RestartLaunched(t)
    \/ \E t \in Requests : PageOpened(t)
    \/ \E t \in Requests : ContentSet(t)
    \/ \E t \in Requests : Settled(t)
    \/ \E t \in Requests : FrameVisible(t)
    \/ \E t \in Requests : Screenshot(t)
    \/ \E t \in Requests : PageClosed(t)
    \/ \E t \in Requests : Respond(t)
    \/ \E b \in Browsers : BrowserCrash(b)
    \/ \E d \in Drivers : DriverBreak(d)

vars == <<rvars, ivars, hvars>>

\* No helper is being applied, no feed is being rewritten.
NoCall == [fn |-> "none", arg |-> <<>>, ret |-> <<>>, returned |-> FALSE]
HelpersIdle == call = NoCall

Init == RenderInit(1..MaxCapacity) /\ ResolverIdle /\ HelpersIdle

Spec == Init /\ [][Next]_vars

\* The awaits of a render call that holds a gate unit complete (the
\* Playwright calls return or raise); asyncio wakes the waiters of a
\* Semaphore in arrival order, so a waiter is not passed over for ever.
Progress(t) ==
    \/ EnsureStarted(t) \/ EnsureClosed(t) \/ EnsureLaunched(t)
    \/ RestartClosed(t) \/ RestartStopped(t) \/ RestartStarted(t)
    \/ RestartLaunched(t)
    \/ PageOpened(t) \/ ContentSet(t) \/ Settled(t) \/ FrameVisible(t)
    \/ Screenshot(t) \/ PageClosed(t)

Fairness ==
    \A t \in Requests :
        /\ WF_vars(Progress(t))
        /\ SF_vars(AcquireSem(t))

\* The service with a single gate unit (RENDER_CONCURRENCY = 1): calls
\* queue at the gate and never at the lock.
NextLive ==
    \/ Startup
    \/ Shutdown
    \/ ShutdownClosed
    \/ ShutdownStopped
    \/ \E t \in Requests : CallRender(t)
    \/ \E t \in Requests : AcquireSem(t)
    \/ \E t \in Tasks : EnsureStarted(t)
    \/ \E t \in Tasks : EnsureClosed(t)
    \/ \E t \in Tasks : EnsureLaunched(t)
    \/ \E t \in Tasks : RestartClosed(t)
    \/ \E t \in Tasks : RestartStopped(t)
    \/ \E t \in Tasks : RestartStarted(t)
    \/ \E t \in Tasks : RestartLaunched(t)
    \/ \E t \in Requests : PageOpened(t)
    \/ \E t \in Requests : ContentSet(t)
    \/ \E t \in Requests : Settled(t)
    \/ \E t \in Requests : FrameVisible(t)
    \/ \E t \in Requests : Screenshot(t)
    \/ \E t \in Requests : PageClosed(t)
    \/ \E t \in Requests : Respond(t)
    \/ \E b \in Browsers : BrowserCrash(b)
    \/ \E d \in Drivers : DriverBreak(d)

InitLive == RenderInit({1}) /\ ResolverIdle /\ HelpersIdle

SpecLive == InitLive /\ [][NextLive]_vars /\ Fairness

\* ------------------------------------- image resolution (248-280, 464-474)
UrlKinds == {"empty", "data", "http_png", "http_plain"}

\* 273: the payload ceiling.
MaxImageBytes == 6000000

\* What client.get can end with: an exception (timeout, connection error)
\* or a response.
Responses ==
    {[kind |-> "raise", status |-> 0, ctype |-> "", size |-> 0]} \cup
    [kind : {"response"}, status : {200, 404},
     ctype : {"image/webp", "IMAGE/PNG", "text/html"},
     size : {MaxImageBytes, MaxImageBytes + 1}]

\* "image/" in ct.lower()  /  "image/" in content_type
LowerHasImage(ct) == ct \in {"image/webp", "IMAGE/PNG"}
RawHasImage(ct) == ct = "image/webp"

\* 231-241
GuessMime(u, ct) ==
    IF RawHasImage(ct) THEN ct
    ELSE IF u = "http_png" THEN "image/png"
    ELSE "image/jpeg"

\* 263-280: how the client.get of to_data_uri is answered.  Whatever the
\* answer, to_data_uri returns: there is no second client.get.
FetchOutcome(r) ==
    IF r.kind = "raise" THEN "raise"
    ELSE IF r.status >= 400 THEN "status"
    ELSE IF ~LowerHasImage(r.ctype) THEN "not_image"
    ELSE IF r.size > MaxImageBytes THEN "too_big"
    ELSE "ok"

FallbackUri == "fallback"

\* 248-253: the part of to_data_uri before its await.  The value is
\* "fetch" when client.get is called.
BeforeFetch(u) ==
    IF u = "empty" THEN FallbackUri
    ELSE IF u = "data" THEN "passthrough"
    ELSE "fetch"

\* 464-466: an empty logo_url is replaced by the static logo's URL.
ResolverInit ==
    /\ url \in {u \in [Images -> UrlKinds] : u["logo"] # "empty"}
    /\ rpc = [i \in Images |-> "waiting"]
    /\ fetches = [i \in Images |-> 0]
    /\ outcome = [i \in Images |-> "none"]
    /\ resolved = [i \in Images |-> "none"]
    /\ joined = FALSE

\* 469-474: gather starts to_data_uri for image i; it runs to its await.
ResolveStart(i) ==
    /\ rpc[i] = "waiting"
    /\ LET v == BeforeFetch(url[i]) IN
       IF v = "fetch"
       THEN /\ rpc' = [rpc EXCEPT ![i] = "fetching"]
            /\ fetches' = [fetches EXCEPT ![i] = @ + 1]
            /\ UNCHANGED resolved
       ELSE /\ rpc' = [rpc EXCEPT ![i] = "done"]
            /\ resolved' = [resolved EXCEPT ![i] = v]
            /\ UNCHANGED fetches
    /\ UNCHANGED <<url, outcome, joined, rvars, hvars>>

\* 265 completes.
FetchDone(i) ==
    /\ rpc[i] = "fetching"
    /\ \E r \in Responses :
        LET o == FetchOutcome(r) IN
        /\ outcome' = [outcome EXCEPT ![i] = o]
        /\ rpc' = [rpc EXCEPT ![i] = "done"]
        /\ resolved' = [resolved EXCEPT ![i] =
               IF o = "ok" THEN GuessMime(url[i], r.ctype) ELSE FallbackUri]
    /\ UNCHANGED <<url, fetches, joined, rvars, hvars>>

GatherRace == \E i \in Images : rpc[i] = "done"
\* 469: asyncio.gather returns when every one of its awaitables has.
GatherDone == \A i \in Images : rpc[i] = "done"

\* 469: gather returns once the four calls have returned.
Join ==
    /\ ~joined
    /\ GatherDone
    /\ joined' = TRUE
    /\ UNCHANGED <<url, rpc, fetches, outcome, resolved, rvars, hvars>>

\* 476-493: with the four values in hand the page is built and
\* render_png is called.
RenderResolved ==
    /\ joined
    /\ CallRender(1)

NextResolve ==
    \/ \E i \in Images : ResolveStart(i)
    \/ \E i \in Images : FetchDone(i)
    \/ Join
    \/ RenderResolved

InitResolve == RenderServing /\ ResolverInit /\ HelpersIdle

SpecResolve == InitResolve /\ [][NextResolve]_vars

\* ------------------------------------------- _clean_url (45-56)
\* A URL is its part outside the query and the keys of its query
\* parameters, in order; the empty string is the URL with neither.
MaxParams == 1
ParamKeys == {"utm_source", "FBCLID", "id"}
UrlPaths == {"", "a", "b", "c"}
ParamLists == UNION {[1..n -> ParamKeys] : n \in 0..MaxParams}
Urls == [path : UrlPaths, keys : ParamLists]
EmptyUrl == [path |-> "", keys |-> <<>>]

\* k.lower()
Lower(k) == IF k = "FBCLID" THEN "fbclid" ELSE k
\* 53: k.lower().startswith("utm_") or k.lower() in {"fbclid", "gclid"}
IsTracking(k) == Lower(k) \in {"utm_source"} \cup {"fbclid", "gclid"}

\* 47-56: the URL rebuilt without its tracking parameters.
CleanUrl(u) ==
    IF u = EmptyUrl THEN EmptyUrl
    ELSE [u EXCEPT !.keys = SelectSeq(u.keys, LAMBDA k : ~IsTracking(k))]

\* ----------------------------------------- choose_images (59-89)
\* An item is the sequence of its child elements, each a tag and a text.
ImageTags == {"image_link", "additional_image_link"}
MaxChildren == 3
ImageItems == UNION {[1..n -> [tag : ImageTags, text : Urls]] : n \in 0..MaxChildren}

\* item.findtext(tag, default=""): the text of the first child with the tag.
FindText(item, tag) ==
    LET at == {i \in 1..Len(item) : item[i].tag = tag} IN
    IF at = {} THEN EmptyUrl
    ELSE item[CHOOSE i \in at : \A j \in at : i <= j].text

\* 64-68: the non-empty texts of the additional_image_link children.
AdditionalRaw(item) ==
    LET adds == SelectSeq(item, LAMBDA c : c.tag = "additional_image_link")
        texts == [i \in 1..Len(adds) |-> adds[i].text] IN
    SelectSeq(texts, LAMBDA u : u # EmptyUrl)

\* 70: all_urls
Candidates(item) == <<FindText(item, "image_link")>> \o AdditionalRaw(item)

\* 72-78: the loop from candidate i on, with `seen` and `uniq` so far.
RECURSIVE Uniq(_, _, _, _)
Uniq(all, i, seen, uniq) ==
    IF i > Len(all) THEN uniq
    ELSE LET cu == CleanUrl(all[i]) IN
         IF cu # EmptyUrl /\ cu \notin seen
         THEN Uniq(all, i + 1, seen \cup {cu}, Append(uniq, all[i]))
         ELSE Uniq(all, i + 1, seen, uniq)

\* 80-89
ChooseImagesOf(item) ==
    LET primary_raw == FindText(item, "image_link")
        uniq == Uniq(Candidates(item), 1, {}, <<>>)
        primary == IF uniq # <<>> THEN uniq[1] ELSE primary_raw
        s1 == IF Len(uniq) > 1 THEN uniq[2] ELSE EmptyUrl
        s1f == IF s1 = EmptyUrl THEN primary ELSE s1
        s2 == IF Len(uniq) > 2 THEN uniq[3] ELSE EmptyUrl
        s2f == IF s2 = EmptyUrl THEN s1f ELSE s2
    IN <<primary, s1f, s2f>>

ChooseInit ==
    call \in {[fn |-> "choose_images", arg |-> it, ret |-> <<>>,
                returned |-> FALSE] : it \in ImageItems}

ChooseImages ==
    /\ call.fn = "choose_images"
    /\ ~call.returned
    /\ call' = [call EXCEPT !.ret = ChooseImagesOf(call.arg), !.returned = TRUE]
    /\ UNCHANGED <<rvars, ivars>>

NextChoose == ChooseImages

InitChoose == RenderInit({1}) /\ ResolverIdle /\ ChooseInit

SpecChoose == InitChoose /\ [][NextChoose]_vars

\* --------------------------------------------- feed_proxy (502-560)
\* The upstream document: whether the root has a channel, and the items
\* of the channel.  Texts are URLs or, for the other fields, plain values
\* written the same way.
MaxItems == 2
FeedUrls == {u \in Urls : u.path \in {"", "a"} /\ u.keys \in {<<>>, <<"utm_source">>}
                           /\ (u.path = "" => u.keys = <<>>)}
TitleChild == [tag |-> "title", text |-> [path |-> "Title", keys |-> <<>>]]
FeedChildren == [tag : ImageTags, text : FeedUrls] \cup {TitleChild}
FeedItems == UNION {[1..n -> FeedChildren] : n \in 0..MaxChildren}
FeedDocs == [channel : BOOLEAN,
             items : UNION {[1..n -> FeedItems] : n \in 1..MaxItems}]

\* 520-544: the render URL of an item, built from the item as received:
\* its title and the three images choose_images returns, each encoded
\* into its own query parameter.
RenderUrl(item) ==
    [render |-> ChooseImagesOf(item), title |-> FindText(item, "title")]

\* 546-549: the first image_link child gets the render URL; one is
\* appended when the item has none.
SetPrimary(item, r) ==
    LET at == {i \in 1..Len(item) : item[i].tag = "image_link"} IN
    IF at = {} THEN Append(item, [tag |-> "image_link", text |-> r])
    ELSE [item EXCEPT ![CHOOSE i \in at : \A j \in at : i <= j].text = r]

RewriteKeepingExtras(item) ==
    LET r == RenderUrl(item) IN
    SetPrimary(item, r) \o [k \in 1..2 |-> [tag |-> "additional_image_link", text |-> r]]
\* 520-556: the body of the loop for one item.
Rewrite(item) ==
    LET r == RenderUrl(item)
        kept == SelectSeq(SetPrimary(item, r),
                          LAMBDA c : c.tag # "additional_image_link")
    IN kept \o [k \in 1..2 |-> [tag |-> "additional_image_link", text |-> r]]

\* 511-560: what feed_proxy answers for the fetched document.
Transform(doc) ==
    IF ~doc.channel THEN [status |-> 200, body |-> doc]
    ELSE [status |-> 200,
          body |-> [doc EXCEPT !.items = [i \in 1..Len(doc.items) |->
                                            Rewrite(doc.items[i])]]]

FeedInit ==
    call \in {[fn |-> "feed_proxy", arg |-> d, ret |-> <<>>,
                returned |-> FALSE] : d \in FeedDocs}

\* 508-509 complete: the upstream answers with the document, or the fetch
\* raises (connection error, error status) and the request fails.
FeedFetched ==
    /\ call.fn = "feed_proxy"
    /\ ~call.returned
    /\ \E ok \in BOOLEAN :
        call' = [call EXCEPT !.returned = TRUE,
                             !.ret = IF ok THEN Transform(call.arg)
                                     ELSE [status |-> 500, body |-> <<>>]]
    /\ UNCHANGED <<rvars, ivars>>

NextFeed == FeedFetched

InitFeed == RenderInit({1}) /\ ResolverIdle /\ FeedInit

SpecFeed == InitFeed /\ [][NextFeed]_vars

\* ------------------------------- norm_price, format_currency_tr (34-42)
\* A string is the sequence of its characters.
MaxLen == 4
Chars == {"T", "R", "Y", "t", "r", "y", "a", " "}
Strings == UNION {[1..n -> Chars] : n \in 0..MaxLen}

\* s.split(): the maximal runs of characters that are not whitespace.
RECURSIVE Words(_, _)
Words(s, word) ==
    IF s = <<>> THEN (IF word = <<>> THEN <<>> ELSE <<word>>)
    ELSE IF Head(s) = " "
         THEN (IF word = <<>> THEN <<>> ELSE <<word>>) \o Words(Tail(s), <<>>)
         ELSE Words(Tail(s), Append(word, Head(s)))

\* " ".join(words)
RECURSIVE JoinWords(_)
JoinWords(words) ==
    IF words = <<>> THEN <<>>
    ELSE IF Len(words) = 1 THEN words[1]
    ELSE words[1] \o <<" ">> \o JoinWords(Tail(words))

\* 34-35
NormPrice(s) == JoinWords(Words(s, <<>>))

\* str.replace(old, new): every occurrence, scanning from the left.
RECURSIVE Replace(_, _, _)
Replace(s, old, new) ==
    IF Len(s) < Len(old) THEN s
    ELSE IF SubSeq(s, 1, Len(old)) = old
         THEN new \o Replace(SubSeq(s, Len(old) + 1, Len(s)), old, new)
         ELSE <<Head(s)>> \o Replace(Tail(s), old, new)

\* 38-42
FormatCurrencyTr(s) ==
    LET x == NormPrice(s) IN
    IF x = <<>> THEN x
    ELSE Replace(Replace(x, <<"T", "R", "Y">>, <<"T", "L">>),
                 <<"t", "r", "y">>, <<"T", "L">>)

FormatInit ==
    call \in {[fn |-> "format_currency_tr", arg |-> x, ret |-> <<>>,
                returned |-> FALSE] : x \in Strings}

FormatCurrency ==
    /\ call.fn = "format_currency_tr"
    /\ ~call.returned
    /\ call' = [call EXCEPT !.ret = FormatCurrencyTr(call.arg), !.returned = TRUE]
    /\ UNCHANGED <<rvars, ivars>>

NextFormat == FormatCurrency

InitFormat == RenderInit({1}) /\ ResolverIdle /\ FormatInit

SpecFormat == InitFormat /\ [][NextFormat]_vars

\* ----------------- _parse_money_to_float, calc_discount_percent (136-168)
MaxMoneyLen == 3
Digits == {"0", "1", "5", "7"}
MoneyChars == {"0", "1", "5", ".", ",", "T"}
MoneyExamples == {<<"1", "0", "0", "0", " ", "T", "L">>,
                  <<"7", "5", "0", " ", "T", "L">>,
                  <<"5", "0", "0">>}
MoneyStrings ==
    UNION {[1..n -> MoneyChars] : n \in 0..MaxMoneyLen} \cup MoneyExamples

DigitValue(c) ==
    IF c = "0" THEN 0 ELSE IF c = "1" THEN 1 ELSE IF c = "5" THEN 5 ELSE 7

RECURSIVE Pow10(_)
Pow10(n) == IF n = 0 THEN 1 ELSE 10 * Pow10(n - 1)

\* The number a string of digits reads as.
RECURSIVE DigitsValue(_)
DigitsValue(t) ==
    IF t = <<>> THEN 0
    ELSE 10 * DigitsValue(SubSeq(t, 1, Len(t) - 1)) + DigitValue(t[Len(t)])

\* t.rfind(c): 0 when c does not occur.
LastIndex(t, c) ==
    LET at == {i \in 1..Len(t) : t[i] = c} IN
    IF at = {} THEN 0 ELSE CHOOSE i \in at : \A j \in at : j <= i

Without(t, c) == SelectSeq(t, LAMBDA x : x # c)
CommasToDots(t) == [i \in 1..Len(t) |-> IF t[i] = "," THEN "." ELSE t[i]]

\* A float is written here as n / 10^d; NoFloat stands for None.
NoFloat == [ok |-> FALSE, n |-> 0, d |-> 0]

\* 154-157: float(t) accepts digits with at most one point and at least
\* one digit.
ToFloat(t) ==
    LET digits == Without(t, ".")
        points == Len(t) - Len(digits) IN
    IF points > 1 \/ digits = <<>> THEN NoFloat
    ELSE [ok |-> TRUE, n |-> DigitsValue(digits),
          d |-> IF points = 0 THEN 0 ELSE Len(t) - LastIndex(t, ".")]

\* 136-157
ParseMoneyToFloat(s) ==
    IF s = <<>> THEN NoFloat
    ELSE LET t == SelectSeq(s, LAMBDA c : c \in Digits \cup {".", ","})
             dot == LastIndex(t, ".")
             comma == LastIndex(t, ",") IN
         IF t = <<>> THEN NoFloat
         ELSE IF dot # 0 /\ comma # 0
              THEN IF comma > dot
                   THEN ToFloat(CommasToDots(Without(t, ".")))
                   ELSE ToFloat(Without(t, ","))
              ELSE IF comma # 0 THEN ToFloat(CommasToDots(t))
              ELSE ToFloat(t)

\* s >= p, both scaled to the same power of ten.
Scaled(x, y) == x.n * Pow10(y.d)
AtLeast(s, p) == Scaled(s, p) >= Scaled(p, s)

\* 165: int(round((1 - s / p) * 100)).  The quotient is computed in
\* binary floating point: when the exact value lies midway between two
\* integers the float may fall on either side, so both are possible.
Percents(p, s) ==
    LET den == Scaled(p, s)
        num == 100 * (den - Scaled(s, p))
        q == num \div den
        r == num % den IN
    IF 2 * r < den THEN {q} ELSE IF 2 * r > den THEN {q + 1} ELSE {q, q + 1}

NoValue == [has |-> FALSE, pct |-> 0]

\* 163: if not p or not s or p <= 0 or s >= p
Rejects(p, s) ==
    \/ ~p.ok \/ p.n = 0
    \/ ~s.ok \/ s.n = 0
    \/ AtLeast(s, p)

\* 160-168: the values calc_discount_percent can return.
CalcDiscountPercent(price, sale) ==
    LET p == ParseMoneyToFloat(price)
        s == ParseMoneyToFloat(sale) IN
    IF Rejects(p, s) THEN {NoValue}
    ELSE {IF pct <= 0 THEN NoValue ELSE [has |-> TRUE, pct |-> pct] :
            pct \in Percents(p, s)}

DiscountInit ==
    call \in {[fn |-> "calc_discount_percent", arg |-> <<a, b>>, ret |-> NoValue,
                returned |-> FALSE] : a \in MoneyStrings, b \in MoneyStrings}

CalcDiscount ==
    /\ call.fn = "calc_discount_percent"
    /\ ~call.returned
    /\ \E v \in CalcDiscountPercent(call.arg[1], call.arg[2]) :
        call' = [call EXCEPT !.ret = v, !.returned = TRUE]
    /\ UNCHANGED <<rvars, ivars>>

NextDiscount == CalcDiscount

InitDiscount == RenderInit({1}) /\ ResolverIdle /\ DiscountInit

SpecDiscount == InitDiscount /\ [][NextDiscount]_vars

\* =================================================================
\* Properties
\* =================================================================
RestartPcs == {"r_close", "r_stop", "r_start", "r_launch"}
EnsurePcs == {"e_start", "e_close", "e_launch"}
PagePcs == {"set_content", "settle", "frame_wait", "screenshot", "page_close"}

\* The render calls between the acquisition and the release of a gate unit.
InGate == {t \in Requests : pc[t] \notin {"idle", "sem_wait", "done"}}

\* The tasks inside the guarded section of _ensure_browser.
InEnsure == {t \in Tasks :
    pc[t] \in EnsurePcs \/ (pc[t] \in RestartPcs /\ via[t] = "ensure")}

LiveBrowsers == {b \in Browsers : bstate[b] = "live"}

\* C1: the number of render calls between gate acquisition and gate
\* release (ensure, page calls, restart, retry) never exceeds the gate's
\* capacity; with capacity 1 at most one render is in flight.
C1_GateBound == Cardinality(InGate) <= capacity

\* Capacity 1, one render interacting with the browser, another queued.
C1_Witness ==
    /\ capacity = 1
    /\ \E t, u \in Requests :
        /\ pc[t] \in PagePcs
        /\ pc[u] = "sem_wait"

\* C5: every gate unit taken is given back when the call ends, however
\* it ends: free units plus calls in flight always equal the capacity.
C5_NoSlotLeak == render_sem + Cardinality(InGate) = capacity

\* A call has ended by raising out of _ensure_browser (no _do() ran),
\* another after a failed retry, and the gate is whole again.
C5_Witness ==
    /\ InGate = {}
    /\ render_sem = capacity
    /\ \E t, u \in Requests :
        /\ pc[t] = "done" /\ hist[t].ended = "raised" /\ hist[t].fail1 = "none"
        /\ pc[u] = "done" /\ hist[u].ended = "raised" /\ hist[u].fail2 # "none"

\* C6: /render.png always answers 200 with a PNG: the rendered one when
\* render_png returned, the transparent fallback whenever it raised.
C6_NeverErrors ==
    \A t \in Requests :
        /\ pc[t] = "done" =>
            /\ status[t] = 200
            /\ hist[t].ended = "raised" => result[t] = FallbackPng
            /\ hist[t].ended = "returned" => result[t] = RenderedPng
        /\ pc[t] # "done" => status[t] = 0 /\ result[t] = "none"

\* A request answered after its retry failed, one after a failed restart.
C6_Witness ==
    \E t, u \in Requests :
        /\ pc[t] = "done" /\ attempt[t] = 2 /\ hist[t].fail2 # "none"
        /\ status[t] = 200 /\ result[t] = FallbackPng
        /\ pc[u] = "done" /\ attempt[u] = 1 /\ hist[u].fail1 \in FatalErrors
        /\ status[u] = 200 /\ result[u] = FallbackPng

\* C2: at most one launched and not yet closed browser process exists,
\* whatever the gate capacity and the interleaving.
C2_SingleBrowser == Cardinality(LiveBrowsers) <= 1

\* C3: every step that starts or stops the driver, launches or closes the
\* browser or reassigns a handle, in _ensure_browser or in
\* _restart_playwright, runs while its task holds _pw_lock, so no two such
\* sequences are in progress together.
C3_MutationsGuarded ==
    /\ \A t \in Tasks : pc[t] \in EnsurePcs \cup RestartPcs => pw_lock = t
    /\ Cardinality({t \in Tasks : pc[t] \in EnsurePcs \cup RestartPcs}) <= 1

C7_WitnessWaiting ==
    \E t, u \in Requests :
        /\ pc[t] = "e_launch" /\ hist[t].saw = "dead"
        /\ pc[u] = "lock_wait"

C9_ContextCleanup ==
    /\ \A t \in Requests : page[t] # None => pc[t] \in PagePcs
    /\ InGate = {} => \A t \in Tasks : page[t] = None

\* A call has ended after both its attempts opened a page and failed:
\* both pages were closed.
C9_Witness ==
    \E t \in Requests :
        /\ pc[t] = "done" /\ hist[t].pcloses = 2 /\ hist[t].fail2 # "none"
        /\ page[t] = None

\* The render call of task t is inside the restart that render_png itself
\* invoked (420).
InRenderRestart(t) == pc[t] \in RestartPcs /\ via[t] = "render"

\* C4 as claimed: a render call restarts the supervisor and runs the
\* whole render again if and only if its first attempt failed with a
\* fatal-class error.
C4_RetryIffFatal ==
    \A t \in Requests :
        pc[t] = "done" =>
            (hist[t].fail1 \in FatalErrors <=> attempt[t] = 2)

\* C4 as amended: render_png invokes the full restart exactly when its
\* first _do() raised a fatal-class error and at most once per call; the
\* second _do() runs only after that restart has completed; an ordinary
\* first failure, a failure of the restart and any failure of the second
\* _do() end the call with no further restart or retry.
C4_RetryPolicy ==
    \A t \in Requests :
        /\ InRenderRestart(t) => attempt[t] = 1 /\ hist[t].fail1 \in FatalErrors
        /\ hist[t].fail1 \in FatalErrors <=> (via[t] = "render")
        /\ attempt[t] = 2 => hist[t].fail1 \in FatalErrors /\ ~InRenderRestart(t)
        /\ hist[t].fail1 \notin FatalErrors \cup {"none"} =>
              pc[t] = "done" /\ attempt[t] = 1 /\ hist[t].ended = "raised"
        /\ hist[t].fail2 # "none" =>
              pc[t] = "done" /\ attempt[t] = 2 /\ hist[t].ended = "raised"
        /\ pc[t] = "done" /\ hist[t].fail1 \in FatalErrors /\ attempt[t] = 1 =>
              hist[t].ended = "raised" /\ hist[t].fail2 = "none"

\* A call whose first attempt failed fatally, whose restart completed and
\* whose retry failed fatally again has ended; another whose first attempt
\* failed with an ordinary error has ended without restart.
C4_Witness ==
    \E t, u \in Requests :
        /\ pc[t] = "done" /\ attempt[t] = 2
        /\ hist[t].fail1 \in FatalErrors /\ hist[t].fail2 \in FatalErrors
        /\ pc[u] = "done" /\ hist[u].fail1 = "timeout" /\ via[u] = "none"

\* C8 as claimed: a call that found the browser handle disconnected never
\* restarts the driver and, once _ensure_browser has returned, has launched
\* exactly once.
C8_OneLaunchNoRestart ==
    \A t \in Requests :
        hist[t].saw = "dead" =>
            /\ hist[t].erestarts = 0
            /\ pc[t] = "new_page" => hist[t].elaunches = 1

\* C8 as amended: a call that found the browser handle disconnected
\* closes the stale handle first and then makes one launch of its own (none
\* if the driver handle is gone by then); unless that launch raises a
\* fatal-class error there is no full restart, and when the launch
\* succeeds the call goes on to open its page on the browser just
\* launched, with the driver handle untouched.
C8_State ==
    \A t \in Requests :
        hist[t].saw = "dead" =>
            /\ hist[t].ecloses = 1
            /\ hist[t].elaunches <= 1
            /\ pc[t] = "e_close" => hist[t].elaunches = 0 /\ hist[t].erestarts = 0
            /\ pc[t] = "e_launch" => hist[t].elaunches = 1 /\ hist[t].erestarts = 0
            /\ hist[t].erestarts <= hist[t].elaunches
            /\ pc[t] = "new_page" => hist[t].elaunches = 1

C8_Step ==
    \A t \in Requests :
        (pc[t] = "e_launch" /\ hist[t].saw = "dead" /\ pc'[t] = "new_page") =>
            /\ pw' = pw
            /\ browser' # browser
            /\ bstate[browser'] = "unborn" /\ bstate'[browser'] = "live"
            /\ opb'[t] = browser'
            /\ hist'[t].erestarts = 0

C8_Relaunch == [](C8_State) /\ [][C8_Step]_vars

\* A call found the handle disconnected, closed it, launched once without
\* restart and is opening its page on the live browser it launched.
C8_Witness ==
    \E t \in Requests :
        /\ pc[t] = "new_page" /\ attempt[t] = 1
        /\ hist[t].saw = "dead" /\ hist[t].ecloses = 1
        /\ hist[t].elaunches = 1 /\ hist[t].erestarts = 0
        /\ opb[t] = browser /\ bstate[browser] = "live"

\* C10: when the fetch of an http URL raised, to_data_uri returns the
\* transparent fallback only after a second fetch of the same URL.
C10_RetryOnce ==
    \A i \in Images :
        (rpc[i] = "done" /\ outcome[i] = "raise") => fetches[i] = 2

\* C11: a render call that finds no free gate unit is suspended, not
\* failed; it leaves the wait only by taking a unit that is free; and
\* when the calls holding units finish, every waiting call eventually
\* takes a unit and runs.
C11_Blocks ==
    \A t \in Requests :
        /\ (pc[t] = "idle" /\ pc'[t] # "idle" /\ render_sem = 0) =>
              (pc'[t] = "sem_wait" /\ status'[t] = 0)
        /\ (pc[t] = "sem_wait" /\ pc'[t] # "sem_wait") =>
              (render_sem > 0 /\ hist'[t].waited)

C11_GateBlocks ==
    /\ [][C11_Blocks]_vars
    /\ \A t \in Requests : (pc[t] = "sem_wait") ~> (pc[t] # "sem_wait")

\* A call that had to wait for the only gate unit has taken it and is
\* opening its page.
C11_Witness ==
    \E t \in Requests :
        capacity = 1 /\ hist[t].waited /\ pc[t] = "new_page" /\ render_sem = 0

\* The keep-first deduplication the claims describe: the first occurrence
\* of each distinct canonical key, every candidate counted.
RECURSIVE FirstOfEachKey(_, _, _, _)
FirstOfEachKey(all, i, seen, kept) ==
    IF i > Len(all) THEN kept
    ELSE IF CleanUrl(all[i]) \in seen
         THEN FirstOfEachKey(all, i + 1, seen, kept)
         ELSE FirstOfEachKey(all, i + 1, seen \cup {CleanUrl(all[i])},
                             Append(kept, all[i]))

\* C13: when the primary URL is non-empty, choose_images returns the
\* first occurrences of the distinct canonical keys in first-seen order,
\* a missing secondary-1 filled with primary and a missing secondary-2
\* with secondary-1, and none of the three results is empty.
C13_DedupFallback ==
    (call.fn = "choose_images" /\ call.returned
        /\ FindText(call.arg, "image_link") # EmptyUrl) =>
    LET kept == FirstOfEachKey(Candidates(call.arg), 1, {}, <<>>)
        p == kept[1]
        s1 == IF Len(kept) > 1 THEN kept[2] ELSE p
        s2 == IF Len(kept) > 2 THEN kept[3] ELSE s1
    IN /\ call.ret = <<p, s1, s2>>
       /\ \A k \in 1..3 : call.ret[k] # EmptyUrl

\* C14: the primary result of choose_images is the item's primary image
\* URL, the results are empty only when that URL is absent, and when it
\* is absent all three results are empty whatever additional image URLs
\* the item has.
C14_AbsentPrimary ==
    (call.fn = "choose_images" /\ call.returned) =>
    LET primary_raw == FindText(call.arg, "image_link") IN
       /\ call.ret[1] = primary_raw
       /\ (\E k \in 1..3 : call.ret[k] = EmptyUrl) => primary_raw = EmptyUrl
       /\ primary_raw = EmptyUrl => call.ret = <<EmptyUrl, EmptyUrl, EmptyUrl>>

\* The children of an item that are neither a secondary-image field nor
\* its primary image field (the first image_link child).
OtherFields(item) ==
    LET at == {i \in 1..Len(item) : item[i].tag = "image_link"}
        first == IF at = {} THEN 0 ELSE CHOOSE i \in at : \A j \in at : i <= j
        idx == {i \in 1..Len(item) :
                   i # first /\ item[i].tag # "additional_image_link"}
        RECURSIVE Pick(_)
        Pick(i) == IF i > Len(item) THEN <<>>
                   ELSE IF i \in idx THEN <<item[i]>> \o Pick(i + 1)
                   ELSE Pick(i + 1)
    IN Pick(1)

\* The position of the primary image field among the fields that are not
\* secondary-image fields: 0 when the item has none.
PrimaryRank(item) ==
    LET rest == SelectSeq(item, LAMBDA c : c.tag # "additional_image_link")
        at == {i \in 1..Len(rest) : rest[i].tag = "image_link"}
    IN IF at = {} THEN 0 ELSE CHOOSE i \in at : \A j \in at : i <= j

\* C12: in the answer to a feed with a channel, items keep their number
\* and order; in every item the primary image field holds the render URL
\* built from the item as received, there are exactly two
\* secondary-image fields and both hold that URL, and the other fields
\* are the received ones in the received order.  A feed with no channel
\* is answered unchanged.
C12_ItemRewrite ==
    (call.fn = "feed_proxy" /\ call.returned /\ call.ret.status = 200) =>
    LET in == call.arg
        out == call.ret.body IN
    IF ~in.channel THEN out = in
    ELSE
    /\ out.channel
    /\ Len(out.items) = Len(in.items)
    /\ \A i \in 1..Len(in.items) :
        LET a == in.items[i]
            b == out.items[i]
            r == RenderUrl(a)
            extras == SelectSeq(b, LAMBDA c : c.tag = "additional_image_link")
        IN /\ FindText(b, "image_link") = r
           /\ Len(extras) = 2
           /\ extras[1].text = r /\ extras[2].text = r
           /\ OtherFields(b) = OtherFields(a)
           /\ PrimaryRank(a) # 0 => PrimaryRank(b) = PrimaryRank(a)

\* A feed of two items has been answered: the first had no primary image
\* field and no secondary-image field, the second a primary image field
\* and two secondary-image fields.
C12_Witness ==
    /\ call.fn = "feed_proxy" /\ call.returned /\ call.ret.status = 200
    /\ call.arg.channel
    /\ Len(call.arg.items) = 2
    /\ call.arg.items[1] = <<TitleChild>>
    /\ Len(call.arg.items[2]) = 3
    /\ call.arg.items[2][1].tag = "image_link"
    /\ call.arg.items[2][2].tag = "additional_image_link"
    /\ call.arg.items[2][3].tag = "additional_image_link"
    /\ Len(call.ret.body.items[1]) = 4
    /\ Len(call.ret.body.items[2]) = 3

\* A word is the currency code when it reads TRY, in any mix of cases.
IsCurrencyCode(w) ==
    /\ Len(w) = 3
    /\ w[1] \in {"T", "t"} /\ w[2] \in {"R", "r"} /\ w[3] \in {"Y", "y"}

\* C15: format_currency_tr returns the whitespace-normalized input with
\* every word that is the currency code TRY, in any mix of cases,
\* replaced by TL and every other word as it was.
C15_CodeTokenReplaced ==
    (call.fn = "format_currency_tr" /\ call.returned) =>
    LET words == Words(call.arg, <<>>)
        want == [i \in 1..Len(words) |->
                    IF IsCurrencyCode(words[i]) THEN <<"T", "L">> ELSE words[i]]
    IN call.ret = JoinWords(want)

\* C16: calc_discount_percent returns no value unless both strings parse
\* as money, price > 0 and sale < price; when they do it returns
\* round((1 - sale/price) * 100), or no value when that is <= 0.
C16_Discount ==
    (call.fn = "calc_discount_percent" /\ call.returned) =>
    LET p == ParseMoneyToFloat(call.arg[1])
        s == ParseMoneyToFloat(call.arg[2])
        applies == p.ok /\ s.ok /\ p.n > 0 /\ ~AtLeast(s, p)
    IN IF ~applies THEN call.ret = NoValue
       ELSE \E pct \in Percents(p, s) :
               call.ret = IF pct <= 0 THEN NoValue ELSE [has |-> TRUE, pct |-> pct]

\* What to_data_uri can return: the URL itself when it is a data: URI, a
\* data URI of the fetched image (named by its MIME type), the fallback.
ResolvedValues ==
    {"passthrough", FallbackUri, "image/png", "image/jpeg", "image/webp"}

\* C17: the four resolutions of a request do not wait for one another
\* (each can start, and each pending fetch can complete, whatever the
\* others are doing); each ends with a value; gather returns, and
\* render_png is called, only when all four have ended.
C17_FanOutJoin ==
    /\ \A i \in Images :
        /\ rpc[i] = "waiting" => ENABLED ResolveStart(i)
        /\ rpc[i] = "fetching" => ENABLED FetchDone(i)
        /\ rpc[i] = "done" <=> resolved[i] # "none"
        /\ resolved[i] \in ResolvedValues \cup {"none"}
    /\ joined => \A i \in Images : rpc[i] = "done"
    /\ pc[1] # "idle" => joined

\* render_png has been called with four values, the primary image
\* fetched and the logo fallen back after a failed fetch.
C17_Witness ==
    /\ pc[1] = "new_page"
    /\ joined
    /\ resolved["primary"] = "image/png"
    /\ outcome["logo"] = "raise" /\ resolved["logo"] = FallbackUri
    /\ resolved["secondary_1"] = "passthrough"
    /\ resolved["secondary_2"] = FallbackUri /\ fetches["secondary_2"] = 0

\* The logo has been resolved while the fetch of the primary image, started
\* earlier or later, is still pending.
C17_WitnessOrder ==
    /\ rpc["logo"] = "done" /\ fetches["logo"] = 1
    /\ rpc["primary"] = "fetching"
    /\ rpc["secondary_1"] = "waiting"

\* C18: a render call that is opening, using or closing a page does not
\* hold _pw_lock; the lock is held only by a task inside the guarded
\* section of _ensure_browser.
C18_GuardNotAcrossRender ==
    \A t \in Tasks :
        /\ pc[t] \in PagePcs \cup {"new_page"} => pw_lock # t
        /\ page[t] # None => pw_lock # t
        /\ pw_lock = t => t \in InEnsure

\* One render has its page open while another holds the lock inside
\* _ensure_browser.
C18_Witness ==
    \E t, u \in Requests :
        /\ pc[t] \in PagePcs /\ page[t] # None
        /\ pw_lock = u /\ pc[u] \in EnsurePcs

\* C19: a render call never finds _browser absent when it opens its
\* page, on the first _do() or on the second: no _do() fails on a None
\* handle, and a pending new_page addresses a browser that was launched.
C19_HandlePresent ==
    \A t \in Requests :
        /\ hist[t].fail1 # "attr_none"
        /\ hist[t].fail2 # "attr_none"
        /\ pc[t] = "new_page" =>
              opb[t] # None /\ bstate[opb[t]] # "unborn"

\* A render is opening its page on the retry, on the handle it read at
\* that moment, while the restart of another render has since cleared
\* _browser.
C19_Witness ==
    \E t, u \in Requests :
        /\ pc[t] = "new_page" /\ attempt[t] = 2 /\ opb[t] # None
        /\ InRenderRestart(u)
        /\ browser = None

\* No render call is in flight and startup is over.
Quiescent ==
    /\ \A t \in Requests : pc[t] \in {"idle", "done"}
    /\ pc[Lifecycle] \in {"idle", "done"}

\* C20: failures of the supervisor are not sticky: with no render in
\* flight the lock is free, and no call leaves _ensure_browser with an
\* error while _pw still refers to a broken driver, so that the next
\* calls would fail on it again without a fresh driver start.
C20_NotSticky ==
    /\ Quiescent => pw_lock = NoTask
    /\ \A t \in Requests : ~hist[t].stuck

====
